---- MODULE Spec2Model ----
(***************************************************************************)
(* SelectField (apps/frontend/src/components/customUI/form/SelectField.tsx) *)
(* as a state machine: the three useState cells of every mounted instance,  *)
(* the props that steer the handlers, the document-level mousedown          *)
(* listeners, and one action per event handler.  Strings are sequences of   *)
(* one-character strings so that toLowerCase and includes are computed.     *)
(***************************************************************************)
EXTENDS Integers, Sequences, FiniteSets

VARIABLES
    mounted,        \* [Instances -> BOOLEAN]: the instance is in the tree
    searchable,     \* [Instances -> BOOLEAN]: the searchable prop
    disabled,       \* [Instances -> BOOLEAN]: the disabled prop
    isOpen,         \* [Instances -> BOOLEAN]: useState(false)
    searchTerm,     \* [Instances -> string]:  useState("")
    focusedIndex,   \* [Instances -> Int]:     useState(-1)
    listeners,      \* [Instances -> Nat]: mousedown listeners on document, by owner
    lastEvent,      \* the event handled by the last step
    onChangeCalls,  \* the arguments onChange was invoked with during that event
    fOptions,       \* inputs and result of one evaluation of filteredOptions
    fSearchable,
    fTerm,
    fVisible,
    fDone

vars == <<mounted, searchable, disabled, isOpen, searchTerm, focusedIndex,
          listeners, lastEvent, onChangeCalls,
          fOptions, fSearchable, fTerm, fVisible, fDone>>

ctlVars == <<mounted, searchable, disabled, isOpen, searchTerm, focusedIndex,
             listeners, lastEvent, onChangeCalls>>

filterVars == <<fOptions, fSearchable, fTerm, fVisible, fDone>>

----------------------------------------------------------------------------
(* Bounds of the filter evaluation. *)
MaxOptions == 2
MaxTermLen == 2

(* Two SelectField instances share the document. *)
Instances == {"s1", "s2"}

(* A pointer press lands inside one instance's container or elsewhere. *)
Elsewhere == "elsewhere"

----------------------------------------------------------------------------
(* String.prototype.toLowerCase, character by character. *)
toLowerCaseChar(c) ==
    CASE c = "A" -> "a"
      [] c = "B" -> "b"
      [] c = "C" -> "c"
      [] c = "P" -> "p"
      [] OTHER -> c

toLowerCase(s) == [k \in 1..Len(s) |-> toLowerCaseChar(s[k])]

(* String.prototype.includes: t occurs in s as a contiguous substring. *)
includes(s, t) ==
    \E k \in 0..(Len(s) - Len(t)) : SubSeq(s, k + 1, k + Len(t)) = t

filteredOptionsCaseSensitive(opts, srch, term) ==
    IF srch
    THEN SelectSeq(opts, LAMBDA o : includes(o.label, term) /\ ~o.disabled)
    ELSE SelectSeq(opts, LAMBDA o : ~o.disabled)

(* const filteredOptions = searchable ? options.filter(...) : options.filter(...) *)
filteredOptions(opts, srch, term) ==
    IF srch
    THEN SelectSeq(opts, LAMBDA o :
             includes(toLowerCase(o.label), toLowerCase(term)) /\ ~o.disabled)
    ELSE SelectSeq(opts, LAMBDA o : ~o.disabled)

----------------------------------------------------------------------------
(* The options prop of the mounted instances. *)
Options ==
    << [value |-> "a", label |-> <<"A","p","p","l","e">>,     disabled |-> FALSE],
       [value |-> "b", label |-> <<"B","a","n","a","n","a">>, disabled |-> TRUE],
       [value |-> "c", label |-> <<"C","h","e","r","r","y">>, disabled |-> FALSE],
       [value |-> "d", label |-> <<"A","p","r","i","c","o","t">>, disabled |-> FALSE] >>

(* What the user can leave in the search input after an onChange of it. *)
TypedTerms ==
    { <<>>, <<"a","n">>, <<"A","P">>, <<"c","h">> }

Keys == {"Enter", " ", "ArrowDown", "ArrowUp", "Escape", "Tab"}

(* The filtered list the current render of instance i closes over. *)
visible(i) == filteredOptions(Options, searchable[i], searchTerm[i])

(* An event: its kind, the instance it is dispatched to, the key pressed or *)
(* the press's target, and a position: the row of a row event, the         *)
(* focusedIndex a key handler closed over, or the number of panels open    *)
(* when the pointer was pressed.                                           *)
Ev(kind, inst, arg, pos) == [kind |-> kind, inst |-> inst, arg |-> arg, pos |-> pos]

NoEvent == Ev("none", "none", "", -1)

----------------------------------------------------------------------------
(* State after construction: nothing is mounted, no listener is installed. *)
InitCtl ==
    /\ mounted = [i \in Instances |-> FALSE]
    /\ searchable = [i \in Instances |-> FALSE]
    /\ disabled = [i \in Instances |-> FALSE]
    /\ isOpen = [i \in Instances |-> FALSE]
    /\ searchTerm = [i \in Instances |-> <<>>]
    /\ focusedIndex = [i \in Instances |-> -1]
    /\ listeners = [i \in Instances |-> 0]
    /\ lastEvent = NoEvent
    /\ onChangeCalls = <<>>

InitFilterIdle ==
    /\ fOptions = <<>>
    /\ fSearchable = FALSE
    /\ fTerm = <<>>
    /\ fVisible = <<>>
    /\ fDone = FALSE

Init == InitCtl /\ InitFilterIdle

(* setIsOpen(false); setSearchTerm(""); setFocusedIndex(-1); *)
closeAndReset(i) ==
    /\ isOpen' = [isOpen EXCEPT ![i] = FALSE]
    /\ searchTerm' = [searchTerm EXCEPT ![i] = <<>>]
    /\ focusedIndex' = [focusedIndex EXCEPT ![i] = -1]

(* document.addEventListener("mousedown", handleClickOutside) *)
addEventListener(l, i) == [l EXCEPT ![i] = @ + 1]

removeEventListenerLeak(l, i) == l

(* return () => document.removeEventListener("mousedown", handleClickOutside) *)
removeEventListener(l, i) == [l EXCEPT ![i] = @ - 1]

(* First render and the mount effects of an instance with the given props. *)
Mount(i, srch, dis) ==
    /\ ~mounted[i]
    /\ mounted' = [mounted EXCEPT ![i] = TRUE]
    /\ searchable' = [searchable EXCEPT ![i] = srch]
    /\ disabled' = [disabled EXCEPT ![i] = dis]
    /\ isOpen' = [isOpen EXCEPT ![i] = FALSE]
    /\ searchTerm' = [searchTerm EXCEPT ![i] = <<>>]
    /\ focusedIndex' = [focusedIndex EXCEPT ![i] = -1]
    /\ listeners' = addEventListener(listeners, i)
    /\ lastEvent' = Ev("mount", i, "", -1)
    /\ onChangeCalls' = <<>>
    /\ UNCHANGED filterVars

(* Unmount: the effect's cleanup runs and the instance's state is dropped. *)
Unmount(i) ==
    /\ mounted[i]
    /\ mounted' = [mounted EXCEPT ![i] = FALSE]
    /\ searchable' = [searchable EXCEPT ![i] = FALSE]
    /\ disabled' = [disabled EXCEPT ![i] = FALSE]
    /\ closeAndReset(i)
    /\ listeners' = removeEventListener(listeners, i)
    /\ lastEvent' = Ev("unmount", i, "", -1)
    /\ onChangeCalls' = <<>>
    /\ UNCHANGED filterVars

(* The parent re-renders the instance with a new disabled prop.  The       *)
(* listener effect has an empty dependency list and does not run again.    *)
Rerender(i, dis) ==
    /\ mounted[i]
    /\ disabled' = [disabled EXCEPT ![i] = dis]
    /\ lastEvent' = Ev("rerender", i, "", -1)
    /\ onChangeCalls' = <<>>
    /\ UNCHANGED <<mounted, searchable, isOpen, searchTerm, focusedIndex, listeners>>
    /\ UNCHANGED filterVars

(* The three useState cells of instance i. *)
cells(i) ==
    [isOpen |-> isOpen[i], searchTerm |-> searchTerm[i], focusedIndex |-> focusedIndex[i]]

Closed == [isOpen |-> FALSE, searchTerm |-> <<>>, focusedIndex |-> -1]

handleClickOutsideKeepsSearch(c, hasContainer, inside) ==
    IF hasContainer /\ ~inside THEN [Closed EXCEPT !.searchTerm = c.searchTerm] ELSE c

(* handleClickOutside: c are the instance's cells, hasContainer is         *)
(* containerRef.current, inside is containerRef.current.contains(target).  *)
handleClickOutside(c, hasContainer, inside) ==
    IF hasContainer /\ ~inside THEN Closed ELSE c

(* A mousedown reaches the document: every registered listener runs. *)
MouseDown(target) ==
    /\ target \in Instances => mounted[target]
    /\ \E i \in Instances : mounted[i]
    /\ LET after(i) == IF listeners[i] > 0
                       THEN handleClickOutside(cells(i), mounted[i], target = i)
                       ELSE cells(i)
       IN /\ isOpen' = [i \in Instances |-> after(i).isOpen]
          /\ searchTerm' = [i \in Instances |-> after(i).searchTerm]
          /\ focusedIndex' = [i \in Instances |-> after(i).focusedIndex]
    /\ lastEvent' = Ev("mouseDown", "none", target, Cardinality({i \in Instances : isOpen[i]}))
    /\ onChangeCalls' = <<>>
    /\ UNCHANGED <<mounted, searchable, disabled, listeners>>
    /\ UNCHANGED filterVars

(* onClick={() => !disabled && setIsOpen(!isOpen)} of the activation button *)
ToggleClick(i) ==
    /\ mounted[i]
    /\ IF ~disabled[i]
       THEN isOpen' = [isOpen EXCEPT ![i] = ~isOpen[i]]
       ELSE UNCHANGED isOpen
    /\ lastEvent' = Ev("toggleClick", i, "", -1)
    /\ onChangeCalls' = <<>>
    /\ UNCHANGED <<mounted, searchable, disabled, searchTerm, focusedIndex, listeners>>
    /\ UNCHANGED filterVars

handleSelectIgnoresDisabled(i, option) ==
    /\ onChangeCalls' = <<option.value>>
    /\ closeAndReset(i)

handleSelectKeepsSearch(i, option) ==
    IF option.disabled
    THEN /\ onChangeCalls' = <<>>
         /\ UNCHANGED <<isOpen, searchTerm, focusedIndex>>
    ELSE /\ onChangeCalls' = <<option.value>>
         /\ isOpen' = [isOpen EXCEPT ![i] = FALSE]
         /\ focusedIndex' = [focusedIndex EXCEPT ![i] = -1]
         /\ UNCHANGED searchTerm

(* handleSelect *)
handleSelect(i, option) ==
    IF option.disabled
    THEN /\ onChangeCalls' = <<>>
         /\ UNCHANGED <<isOpen, searchTerm, focusedIndex>>
    ELSE /\ onChangeCalls' = <<option.value>>
         /\ closeAndReset(i)

arrowDownNoWrap(prev, n) == IF prev < n - 1 THEN prev + 1 ELSE prev

(* (prev) => prev < filteredOptions.length - 1 ? prev + 1 : 0 *)
arrowDown(prev, n) == IF prev < n - 1 THEN prev + 1 ELSE 0

(* (prev) => prev > 0 ? prev - 1 : filteredOptions.length - 1 *)
arrowUp(prev, n) == IF prev > 0 THEN prev - 1 ELSE n - 1

enterCommitsUnfiltered(i) ==
    IF focusedIndex[i] >= 0 /\ focusedIndex[i] < Len(visible(i))
    THEN handleSelect(i, Options[focusedIndex[i] + 1])
    ELSE /\ onChangeCalls' = <<>>
         /\ UNCHANGED <<isOpen, searchTerm, focusedIndex>>

(* case "Enter" of handleKeyDown while open *)
enterCommits(i) ==
    IF focusedIndex[i] >= 0 /\ focusedIndex[i] < Len(visible(i))
    THEN handleSelect(i, visible(i)[focusedIndex[i] + 1])
    ELSE /\ onChangeCalls' = <<>>
         /\ UNCHANGED <<isOpen, searchTerm, focusedIndex>>

(* handleKeyDown on the activation button; a disabled button gets no keys. *)
KeyDown(i, key) ==
    /\ mounted[i]
    /\ ~disabled[i]
    /\ IF ~isOpen[i]
       THEN /\ IF key \in {"Enter", " "}
               THEN isOpen' = [isOpen EXCEPT ![i] = TRUE]
               ELSE UNCHANGED isOpen
            /\ onChangeCalls' = <<>>
            /\ UNCHANGED <<searchTerm, focusedIndex>>
       ELSE CASE key = "ArrowDown" ->
                   /\ focusedIndex' = [focusedIndex EXCEPT
                          ![i] = arrowDown(focusedIndex[i], Len(visible(i)))]
                   /\ onChangeCalls' = <<>>
                   /\ UNCHANGED <<isOpen, searchTerm>>
              [] key = "ArrowUp" ->
                   /\ focusedIndex' = [focusedIndex EXCEPT
                          ![i] = arrowUp(focusedIndex[i], Len(visible(i)))]
                   /\ onChangeCalls' = <<>>
                   /\ UNCHANGED <<isOpen, searchTerm>>
              [] key = "Enter" -> enterCommits(i)
              [] key = "Escape" ->
                   /\ closeAndReset(i)
                   /\ onChangeCalls' = <<>>
              [] OTHER ->
                   /\ onChangeCalls' = <<>>
                   /\ UNCHANGED <<isOpen, searchTerm, focusedIndex>>
    /\ lastEvent' = Ev("keyDown", i, key, focusedIndex[i])
    /\ UNCHANGED <<mounted, searchable, disabled, listeners>>
    /\ UNCHANGED filterVars

(* onMouseEnter={() => setFocusedIndex(index)} of a rendered option row *)
RowHover(i, index) ==
    /\ mounted[i]
    /\ isOpen[i]
    /\ index \in 0..(Len(visible(i)) - 1)
    /\ focusedIndex' = [focusedIndex EXCEPT ![i] = index]
    /\ lastEvent' = Ev("rowHover", i, "", index)
    /\ onChangeCalls' = <<>>
    /\ UNCHANGED <<mounted, searchable, disabled, isOpen, searchTerm, listeners>>
    /\ UNCHANGED filterVars

(* onClick={() => handleSelect(option)} of a rendered option row *)
RowClick(i, index) ==
    /\ mounted[i]
    /\ isOpen[i]
    /\ index \in 0..(Len(visible(i)) - 1)
    /\ handleSelect(i, visible(i)[index + 1])
    /\ lastEvent' = Ev("rowClick", i, "", index)
    /\ UNCHANGED <<mounted, searchable, disabled, listeners>>
    /\ UNCHANGED filterVars

(* handleSelect called with an option that has no rendered row: the rows   *)
(* are the non-disabled options, so such an option is a disabled one.      *)
SelectDisabled(i, k) ==
    /\ mounted[i]
    /\ k \in 1..Len(Options)
    /\ Options[k].disabled
    /\ handleSelect(i, Options[k])
    /\ lastEvent' = Ev("selectDisabled", i, "", k - 1)
    /\ UNCHANGED <<mounted, searchable, disabled, listeners>>
    /\ UNCHANGED filterVars

(* onChange={(e) => setSearchTerm(e.target.value)} of the search input *)
Type(i, text) ==
    /\ mounted[i]
    /\ isOpen[i]
    /\ searchable[i]
    /\ searchTerm' = [searchTerm EXCEPT ![i] = text]
    /\ lastEvent' = Ev("type", i, "", -1)
    /\ onChangeCalls' = <<>>
    /\ UNCHANGED <<mounted, searchable, disabled, isOpen, focusedIndex, listeners>>
    /\ UNCHANGED filterVars

Next ==
    \/ \E i \in Instances, srch \in BOOLEAN, dis \in BOOLEAN : Mount(i, srch, dis)
    \/ \E i \in Instances : Unmount(i)
    \/ \E i \in Instances, dis \in BOOLEAN : Rerender(i, dis)
    \/ \E target \in Instances \cup {Elsewhere} : MouseDown(target)
    \/ \E i \in Instances : ToggleClick(i)
    \/ \E i \in Instances, key \in Keys : KeyDown(i, key)
    \/ \E i \in Instances, index \in 0..(Len(Options) - 1) : RowHover(i, index)
    \/ \E i \in Instances, index \in 0..(Len(Options) - 1) : RowClick(i, index)
    \/ \E i \in Instances, k \in 1..Len(Options) : SelectDisabled(i, k)
    \/ \E i \in Instances, text \in TypedTerms : Type(i, text)

Spec == Init /\ [][Next]_vars

----------------------------------------------------------------------------
(* One evaluation of filteredOptions on inputs drawn from bounded sets. *)
Chars == {"a", "A", "b"}

FilterLabels == { <<"a","B">>, <<"A","b","a">>, <<"b">>, <<"B","B">> }

ValueNames == <<"a", "b", "c", "d">>

SeqsUpTo(S, n) == UNION { [1..m -> S] : m \in 0..n }

OptionLists ==
    { [k \in 1..Len(p) |->
          [value |-> ValueNames[k], label |-> p[k][1], disabled |-> p[k][2]]] :
      p \in SeqsUpTo(FilterLabels \X BOOLEAN, MaxOptions) }

InitFilter ==
    /\ InitCtl
    /\ fOptions \in OptionLists
    /\ fSearchable \in BOOLEAN
    /\ fTerm \in SeqsUpTo(Chars, MaxTermLen)
    /\ fVisible = <<>>
    /\ fDone = FALSE

(* A render computes the filtered list from the props and the search term. *)
Render ==
    /\ ~fDone
    /\ fVisible' = filteredOptions(fOptions, fSearchable, fTerm)
    /\ fDone' = TRUE
    /\ UNCHANGED <<fOptions, fSearchable, fTerm>>
    /\ UNCHANGED ctlVars

NextFilter == Render

SpecFilter == InitFilter /\ [][NextFilter]_vars

----------------------------------------------------------------------------
(* Vocabulary of the properties. *)

(* The event handled by the step is of kind k on instance i. *)
Handled(k, i) == lastEvent'.kind = k /\ lastEvent'.inst = i

InBounds(i) == focusedIndex[i] >= 0 /\ focusedIndex[i] < Len(visible(i))

CellsUnchanged(i) ==
    /\ isOpen'[i] = isOpen[i]
    /\ searchTerm'[i] = searchTerm[i]
    /\ focusedIndex'[i] = focusedIndex[i]

CellsClosed(i) ==
    /\ isOpen'[i] = FALSE
    /\ searchTerm'[i] = <<>>
    /\ focusedIndex'[i] = -1

(* Upper and lower case of one letter. *)
CasePairs == { <<"a","A">>, <<"b","B">>, <<"c","C">>, <<"p","P">> }

SameLetter(x, y) == x = y \/ \E q \in CasePairs : {x, y} = {q[1], q[2]}

(* term occurs in label as a contiguous substring, letter case ignored. *)
Matches(label, term) ==
    \E s \in 0..(Len(label) - Len(term)) :
        \A m \in 1..Len(term) : SameLetter(label[s + m], term[m])

RECURSIVE repeatArrowDown(_, _, _)
repeatArrowDown(f, n, times) ==
    IF times = 0 THEN f ELSE repeatArrowDown(arrowDown(f, n), n, times - 1)

RECURSIVE total(_, _)
total(f, S) ==
    IF S = {} THEN 0
    ELSE LET x == CHOOSE y \in S : TRUE IN f[x] + total(f, S \ {x})

----------------------------------------------------------------------------
(* C1: in every reachable state the focusedIndex of a mounted instance is  *)
(* -1 or a valid index into the list filtered by its current searchTerm.   *)
FocusedIndexInBounds ==
    \A i \in Instances :
        mounted[i] => (focusedIndex[i] = -1 \/ InBounds(i))

(* C2: whenever the panel is closed, searchTerm is empty and focusedIndex  *)
(* is -1, whichever event closed it.                                       *)
ClosedIsReset ==
    \A i \in Instances :
        (mounted[i] /\ ~isOpen[i]) => (searchTerm[i] = <<>> /\ focusedIndex[i] = -1)

(* C3: the filtered list holds no disabled option and is, in source order, *)
(* exactly the non-disabled options whose label contains the search term   *)
(* case-insensitively (searchable) or all non-disabled options (not        *)
(* searchable).                                                            *)
FilterExact ==
    fDone =>
        LET keep == { j \in 1..Len(fOptions) :
                        /\ ~fOptions[j].disabled
                        /\ fSearchable => Matches(fOptions[j].label, fTerm) }
            rank(j) == Cardinality({ m \in keep : m <= j })
        IN /\ Len(fVisible) = Cardinality(keep)
           /\ \A j \in keep : fVisible[rank(j)] = fOptions[j]
           /\ \A k \in 1..Len(fVisible) : ~fVisible[k].disabled

FilterExactWitness ==
    /\ fDone
    /\ fSearchable
    /\ Len(fOptions) = 2
    /\ Len(fTerm) = 2
    /\ fTerm # toLowerCase(fTerm)
    /\ fOptions[1].disabled
    /\ Matches(fOptions[1].label, fTerm)
    /\ fOptions[2].label # toLowerCase(fOptions[2].label)
    /\ fVisible = <<fOptions[2]>>

(* C4: while open with n > 0 filtered options and a valid focusedIndex f,  *)
(* ArrowDown moves to (f + 1) mod n and ArrowUp to (f - 1 + n) mod n;      *)
(* ArrowDown then ArrowUp, and n ArrowDowns, lead back to f; neither key   *)
(* changes isOpen or searchTerm or invokes onChange.                       *)
ArrowKeysCycle ==
    [][\A i \in Instances :
          LET n == Len(visible(i))
              f == focusedIndex[i]
              g == focusedIndex'[i]
          IN (/\ Handled("keyDown", i)
              /\ lastEvent'.arg \in {"ArrowDown", "ArrowUp"}
              /\ isOpen[i]
              /\ n > 0
              /\ InBounds(i))
             => /\ lastEvent'.arg = "ArrowDown" =>
                     /\ g = (f + 1) % n
                     /\ arrowUp(g, n) = f
                     /\ repeatArrowDown(f, n, n) = f
                /\ lastEvent'.arg = "ArrowUp" =>
                     /\ g = (f - 1 + n) % n
                     /\ arrowDown(g, n) = f
                /\ isOpen'[i] = isOpen[i]
                /\ searchTerm'[i] = searchTerm[i]
                /\ onChangeCalls' = <<>>]_vars

ArrowKeysCycleWitness ==
    /\ lastEvent.kind = "keyDown"
    /\ lastEvent.arg = "ArrowDown"
    /\ isOpen[lastEvent.inst]
    /\ Len(visible(lastEvent.inst)) = 2
    /\ lastEvent.pos = 1
    /\ focusedIndex[lastEvent.inst] = 0

(* C5: a selection commit, by a row click or by Enter with a valid         *)
(* focusedIndex, invokes onChange exactly once with the option's value and *)
(* leaves the instance closed with an empty searchTerm and focusedIndex -1.*)
CommitResets ==
    [][\A i \in Instances :
          /\ Handled("rowClick", i) =>
                /\ onChangeCalls' = <<visible(i)[lastEvent'.pos + 1].value>>
                /\ CellsClosed(i)
          /\ (Handled("keyDown", i) /\ lastEvent'.arg = "Enter" /\ isOpen[i] /\ InBounds(i)) =>
                /\ onChangeCalls' = <<visible(i)[focusedIndex[i] + 1].value>>
                /\ CellsClosed(i)]_vars

CommitResetsWitness ==
    /\ lastEvent.kind = "keyDown"
    /\ lastEvent.arg = "Enter"
    /\ lastEvent.pos = 1
    /\ onChangeCalls = <<"d">>
    /\ ~isOpen[lastEvent.inst]
    /\ searchTerm[lastEvent.inst] = <<>>
    /\ focusedIndex[lastEvent.inst] = -1

(* C6: onChange is invoked only by a row click or by Enter while open with *)
(* focusedIndex in bounds, once, with the value of the non-disabled option *)
(* at that position of the filtered list of that moment; Enter while open  *)
(* with focusedIndex out of bounds changes nothing.                        *)
OnChangeOnlyByCommit ==
    [][/\ onChangeCalls' # <<>> =>
            \E i \in Instances :
                LET at == IF lastEvent'.kind = "rowClick"
                          THEN lastEvent'.pos ELSE focusedIndex[i]
                IN /\ lastEvent'.inst = i
                   /\ \/ lastEvent'.kind = "rowClick"
                      \/ lastEvent'.kind = "keyDown" /\ lastEvent'.arg = "Enter"
                   /\ isOpen[i]
                   /\ at >= 0
                   /\ at < Len(visible(i))
                   /\ ~visible(i)[at + 1].disabled
                   /\ onChangeCalls' = <<visible(i)[at + 1].value>>
       /\ \A i \in Instances :
            (Handled("keyDown", i) /\ lastEvent'.arg = "Enter" /\ isOpen[i] /\ ~InBounds(i))
                => (CellsUnchanged(i) /\ onChangeCalls' = <<>>)]_vars

OnChangeOnlyByCommitWitness ==
    /\ lastEvent.kind = "rowClick"
    /\ lastEvent.pos = 0
    /\ searchable[lastEvent.inst]
    /\ onChangeCalls = <<"c">>

(* C7: while the disabled prop is true, no click, key press, row click,    *)
(* row hover or typing changes isOpen, searchTerm or focusedIndex or       *)
(* invokes onChange.                                                       *)
DisabledSuppressesAll ==
    [][\A i \in Instances :
          (/\ disabled[i]
           /\ lastEvent'.inst = i
           /\ lastEvent'.kind \in {"toggleClick", "keyDown", "rowClick", "rowHover", "type"})
          => (CellsUnchanged(i) /\ onChangeCalls' = <<>>)]_vars

(* C8: a pointer press outside an instance's container leaves it closed    *)
(* with an empty searchTerm and focusedIndex -1, a press inside leaves its *)
(* cells unchanged, and neither invokes onChange.                          *)
OutsidePressCloses ==
    [][lastEvent'.kind = "mouseDown" =>
          /\ \A i \in Instances :
                mounted[i] =>
                    IF lastEvent'.arg = i THEN CellsUnchanged(i) ELSE CellsClosed(i)
          /\ onChangeCalls' = <<>>]_vars

OutsidePressClosesWitness ==
    /\ lastEvent.kind = "mouseDown"
    /\ lastEvent.arg = "s1"
    /\ lastEvent.pos = 2
    /\ isOpen["s1"]
    /\ searchTerm["s1"] # <<>>
    /\ mounted["s2"]
    /\ ~isOpen["s2"]

(* C9: handleSelect on a disabled option does not invoke onChange and      *)
(* leaves isOpen, searchTerm and focusedIndex as they were.                *)
DisabledSelectIsNoOp ==
    [][\A i \in Instances :
          Handled("selectDisabled", i) =>
              /\ CellsUnchanged(i)
              /\ onChangeCalls' = <<>>]_vars

DisabledSelectIsNoOpWitness ==
    /\ lastEvent.kind = "selectDisabled"
    /\ Options[lastEvent.pos + 1].disabled
    /\ isOpen[lastEvent.inst]
    /\ searchTerm[lastEvent.inst] # <<>>
    /\ focusedIndex[lastEvent.inst] >= 0
    /\ onChangeCalls = <<>>

(* C10: every mounted instance has exactly one mousedown listener on the   *)
(* document, every unmounted instance has none, and the number of          *)
(* listeners equals the number of mounted instances.                       *)
OneListenerPerMount ==
    /\ \A i \in Instances : listeners[i] = IF mounted[i] THEN 1 ELSE 0
    /\ total(listeners, Instances) = Cardinality({ i \in Instances : mounted[i] })

OneListenerPerMountWitness ==
    /\ lastEvent.kind = "unmount"
    /\ listeners[lastEvent.inst] = 0
    /\ \E j \in Instances : mounted[j] /\ isOpen[j] /\ listeners[j] = 1

====
